---- MODULE Spec2Model ----
(***************************************************************************)
(* React-Project-Automator: the provisioning pipeline of ProjectWorker     *)
(* (src/unnamed/part_001, the v3 application).                             *)
(*                                                                         *)
(* ProjectWorker.run is straight-line code: a fixed sequence of signal     *)
(* emissions, directory changes, external process calls and file writes,   *)
(* gated by the fields of the ProjectConfig, inside one try/except.  The   *)
(* model spells that sequence out as a list of operations (run(cfg)) and   *)
(* executes it one fallible operation at a time.                           *)
(***************************************************************************)
EXTENDS Integers, Sequences, FiniteSets, TLC

VARIABLES
    config,     \* ProjectWorker.config, the ProjectConfig handed to the constructor
    pc,         \* 0: constructed, not started; i: next operation of the run; Len+1: run() returned
    trace,      \* everything the run did so far, in order: signals emitted, processes run, files written
    lastProc,   \* the external process of the latest run_process call
    program,    \* the operations run() goes through for config, in order
    window,     \* ModernReactAutomator: the form's widgets and the window's attributes
    heap,       \* the ProjectConfig objects allocated so far; a reference is an index
    workers,    \* the ProjectWorker threads the window has started, in order
    disk,       \* the directories that exist and are not empty
    git_widget, \* GitIntegration: its attributes and the handler the GUI thread is in
    git_workers, \* the GitWorker threads the widget has created, in order
    repo,       \* the directory a GitWorker works on: its repository, if any, and its files
    git_thread, \* one GitWorker, statement by statement: its arguments, flag, signals, git calls
    buttons,    \* GitIntegration: which of init_btn, commit_btn, push_btn are enabled
    app,        \* the process: what the search path resolves, and how far main() got
    cwd,        \* the working directory of the process
    runners,    \* the ProjectRunner threads the window has started, in order
    landed      \* the files the pipeline has written by relative path, with the directory they went to

pipelineVars == <<config, pc, trace, lastProc, program>>
windowVars == <<window, heap, workers, disk>>
gitVars == <<git_widget, git_workers>>
repoVars == <<repo, git_thread, buttons>>
runnerVars == <<app, cwd, runners, landed>>
vars == <<config, pc, trace, lastProc, program, window, heap, workers, disk, git_widget, git_workers,
          repo, git_thread, buttons, app, cwd, runners, landed>>

(***************************************************************************)
(* Values                                                                  *)
(***************************************************************************)
None == "<None>"                       \* Python's None

NpmPath == "npm"                       \* shutil.which('npm')
NpxPath == "npx"                       \* shutil.which('npx')
ProjectDirectory == "projects"         \* the directory selected in the window
ProjectName == "demo"

\* The choices of the project form (setup_project_form).
Templates == {"react", "next", "remix", "gatsby"}
PackageManagers == {"npm", "yarn", "pnpm"}
Stylings == {"None", "Tailwind CSS", "Styled Components", "CSS Modules"}
StateLibs == {"None", "Redux Toolkit", "Zustand", "Jotai", "Recoil"}
Platforms == {"None", "Vercel", "Netlify", "GitHub Pages"}

\* At most this many fields of the form were changed from their initial values
\* (every box unchecked, every combo on its first entry) before the run was started.
MaxEdits == 3

\* The same, for the runs checked under fairness.
MaxEditsFair == 2

\* bool(x) of an Optional[str]
Truthy(s) == s # None /\ s # ""

\* The form's widgets: their state when the window opens.
setup_project_form ==
    [ template |-> "react", package_manager |-> "npm", state |-> "None",
      styling |-> "None", deploy |-> "None",
      typescript |-> FALSE, eslint |-> FALSE, prettier |-> FALSE, testing |-> FALSE,
      router |-> FALSE, git |-> FALSE, ci_cd |-> FALSE ]

Forms ==
    [ template : Templates, package_manager : PackageManagers, state : StateLibs,
      styling : Stylings, deploy : Platforms,
      typescript : BOOLEAN, eslint : BOOLEAN, prettier : BOOLEAN, testing : BOOLEAN,
      router : BOOLEAN, git : BOOLEAN, ci_cd : BOOLEAN ]

Edits(form) == Cardinality({f \in DOMAIN form : form[f] # setup_project_form[f]})

\* The ProjectConfig that update_project_config builds from the form.
update_project_config(form) ==
    [ name |-> ProjectName,
      template |-> form.template,
      git_integration |-> form.git,
      testing |-> form.testing,
      test_framework |-> IF form.testing THEN "vitest" ELSE None,
      styling_solution |-> form.styling,
      typescript |-> form.typescript,
      eslint |-> form.eslint,
      prettier |-> form.prettier,
      package_manager |-> form.package_manager,
      router |-> form.router,
      state_management |-> IF form.state # "None" THEN form.state ELSE None,
      ci_cd |-> form.ci_cd,
      deployment_platform |-> IF form.deploy # "None" THEN form.deploy ELSE None ]

Configs(edits) == { update_project_config(form) : form \in {f \in Forms : Edits(f) <= edits} }

(***************************************************************************)
(* Operations of the run.  val is the percentage of a progress signal, the *)
(* success flag of a finished signal, and in the trace the outcome of a    *)
(* fallible operation (1 done, 0 failed).  try names the innermost try     *)
(* block around the operation.                                             *)
(***************************************************************************)
Op(op, stage, text, cmd, val) ==
    [op |-> op, stage |-> stage, text |-> text, cmd |-> cmd, val |-> val, try |-> "run"]

Progress(val, text)      == Op("progress", "run", text, <<>>, val)
emit_log(stage, level)   == Op("log", stage, level, <<>>, 0)
Finished(ok, text)       == Op("finished", "run", text, <<>>, IF ok THEN 1 ELSE 0)
Chdir(stage, path)       == Op("chdir", stage, "", path, 1)
Mkdir(stage, path)       == Op("mkdir", stage, "", path, 1)
Proc(stage, cmd, err)    == Op("proc", stage, err, cmd, 1)
Write(stage, path)       == Op("write", stage, path, <<>>, 1)
Git(text)                == Op("git", "git", text, <<>>, 1)

Fallible(o) == o.op \in {"chdir", "mkdir", "proc", "write", "git"}

InTry(name, ops) == [i \in 1..Len(ops) |-> [ops[i] EXCEPT !.try = name]]

(***************************************************************************)
(* The feature set-up methods, each as the operations it performs.         *)
(***************************************************************************)
setup_typescript(cfg) ==
    << emit_log("typescript", "INFO"), Write("typescript", "tsconfig.json") >>

setup_tailwind(cfg) ==
    << Proc("styling", <<NpmPath, "install", "-D", "tailwindcss", "postcss", "autoprefixer">>,
            "Failed to install Tailwind CSS"),
       Proc("styling", <<NpxPath, "tailwindcss", "init", "-p">>,
            "Failed to initialize Tailwind CSS"),
       Write("styling", "tailwind.config.js"),
       Write("styling", "src/index.css") >>

setup_styled_components(cfg) ==
    << Proc("styling",
            <<NpmPath, "install", "styled-components">>
                \o (IF cfg.typescript THEN <<"@types/styled-components">> ELSE <<>>),
            "Failed to install Styled Components"),
       Write("styling", "src/styles/theme.ts") >>

setup_css_modules(cfg) ==
    << Write("styling", "src/styles/Example.module.css") >>

setup_styling(cfg) ==
    << emit_log("styling", "INFO") >>
    \o (IF cfg.styling_solution = "Tailwind CSS" THEN setup_tailwind(cfg)
        ELSE IF cfg.styling_solution = "Styled Components" THEN setup_styled_components(cfg)
        ELSE IF cfg.styling_solution = "CSS Modules" THEN setup_css_modules(cfg)
        ELSE <<>>)

setup_linting(cfg) ==
    (IF cfg.eslint
     THEN << emit_log("linting", "INFO"),
             Proc("linting", <<NpmPath, "install", "-D", "eslint", "eslint-plugin-react",
                               "eslint-plugin-react-hooks", "eslint-plugin-jsx-a11y",
                               "@typescript-eslint/parser", "@typescript-eslint/eslint-plugin">>,
                  "Failed to install ESLint"),
             Write("linting", ".eslintrc.json") >>
     ELSE <<>>)
    \o
    (IF cfg.prettier
     THEN << emit_log("linting", "INFO"),
             Proc("linting", <<NpmPath, "install", "-D", "prettier">>, "Failed to install Prettier"),
             Write("linting", ".prettierrc") >>
     ELSE <<>>)

\* The handler of setup_features' own try block: log at ERROR, re-raise.
setup_features_except == << emit_log("features", "ERROR") >>

setup_features(cfg) ==
    InTry("features",
          (IF cfg.typescript THEN setup_typescript(cfg) ELSE <<>>)
          \o (IF Truthy(cfg.styling_solution) THEN setup_styling(cfg) ELSE <<>>)
          \o (IF cfg.eslint \/ cfg.prettier THEN setup_linting(cfg) ELSE <<>>))

setup_testing(cfg) ==
    << emit_log("testing", "INFO"),
       Proc("testing",
            IF cfg.test_framework = "vitest"
            THEN <<NpmPath, "install", "-D", "vitest", "@testing-library/react",
                   "@testing-library/user-event", "@testing-library/jest-dom", "jsdom">>
            ELSE <<NpmPath, "install", "-D", "jest", "@testing-library/react",
                   "@testing-library/user-event", "@testing-library/jest-dom", "@types/jest">>,
            "Failed to install testing dependencies") >>
    \o (IF cfg.test_framework = "vitest"
        THEN << Write("testing", "src/test/setup.ts"), Write("testing", "src/test/App.test.tsx") >>
        ELSE <<>>)

setup_router(cfg) ==
    << emit_log("router", "INFO"),
       Proc("router", <<NpmPath, "install", "react-router-dom">>, "Failed to install React Router"),
       Write("router", "src/router/index.tsx"),
       Write("router", "src/pages/Home.tsx"),
       Write("router", "src/pages/About.tsx"),
       Write("router", "src/pages/NotFound.tsx") >>

setup_redux_toolkit(cfg) ==
    << Proc("state", <<NpmPath, "install", "@reduxjs/toolkit", "react-redux">>,
            "Failed to install Redux Toolkit"),
       Write("state", "src/store/index.ts"),
       Write("state", "src/store/slices/counterSlice.ts") >>

setup_zustand(cfg) ==
    << Proc("state", <<NpmPath, "install", "zustand">>, "Failed to install Zustand"),
       Write("state", "src/store/index.ts") >>

setup_state_management(cfg) ==
    << emit_log("state", "INFO") >>
    \o (IF cfg.state_management = "Redux Toolkit" THEN setup_redux_toolkit(cfg)
        ELSE IF cfg.state_management = "Zustand" THEN setup_zustand(cfg)
        ELSE <<>>)

setup_vercel_deployment(cfg) ==
    << Write("deploy", "vercel.json") >>

setup_ci_cd(cfg) ==
    << emit_log("cicd", "INFO") >>
    \o (IF cfg.deployment_platform = "Vercel" THEN setup_vercel_deployment(cfg) ELSE <<>>)
    \o << Write("cicd", ".github/workflows/ci.yml") >>

\* The handler of setup_git's own try block: log at ERROR, re-raise.
setup_git_except == << emit_log("git", "ERROR") >>

setup_git(cfg) ==
    << emit_log("git", "INFO") >>
    \o InTry("git", << Git("init"), Write("git", ".gitignore"), Git("add"), Git("commit"),
                       emit_log("git", "SUCCESS") >>)

(***************************************************************************)
(* ProjectWorker.run                                                       *)
(***************************************************************************)
\* f"{template}-ts"
WithTsSuffix ==
    [t \in {"react", "next", "remix", "gatsby"} |->
        CASE t = "react" -> "react-ts" [] t = "next" -> "next-ts"
          [] t = "remix" -> "remix-ts" [] t = "gatsby" -> "gatsby-ts"]

create_cmd_NoSuffix(cfg) ==
    IF cfg.template = "next"
    THEN << "create-next-app", cfg.name,
            IF cfg.typescript THEN "--typescript" ELSE "",
            IF cfg.styling_solution = "Tailwind CSS" THEN "--tailwind" ELSE "",
            IF cfg.eslint THEN "--eslint" ELSE "",
            "--src-dir", "--app" >>
    ELSE << NpxPath, "create-vite@latest", cfg.name, "--template", cfg.template >>

create_cmd(cfg) ==
    IF cfg.template = "next"
    THEN << "create-next-app", cfg.name,
            IF cfg.typescript THEN "--typescript" ELSE "",
            IF cfg.styling_solution = "Tailwind CSS" THEN "--tailwind" ELSE "",
            IF cfg.eslint THEN "--eslint" ELSE "",
            "--src-dir", "--app" >>
    ELSE << NpxPath, "create-vite@latest", cfg.name, "--template",
            IF cfg.typescript THEN WithTsSuffix[cfg.template] ELSE cfg.template >>

run_init(cfg) ==
    << Progress(0, "Initializing project..."),
       emit_log("init", "INFO"),
       Chdir("init", <<ProjectDirectory>>),
       Mkdir("init", <<ProjectDirectory, cfg.name>>) >>

run_scaffold(cfg) ==
    << Progress(20, "Creating project structure..."),
       Proc("scaffold", create_cmd(cfg), "Failed to create project structure") >>

run_install_ConfigManager(cfg) ==
    << Chdir("install", <<ProjectDirectory, cfg.name>>),
       Progress(40, "Installing dependencies..."),
       emit_log("install", "INFO"),
       Proc("install", <<cfg.package_manager, "install">>, "Failed to install core dependencies") >>

run_install(cfg) ==
    << Chdir("install", <<ProjectDirectory, cfg.name>>),
       Progress(40, "Installing dependencies..."),
       emit_log("install", "INFO"),
       Proc("install", <<NpmPath, "install">>, "Failed to install core dependencies") >>

run_features_RouterAlways(cfg) ==
    << Progress(60, "Setting up project features...") >>
    \o setup_features(cfg)
    \o (IF cfg.testing THEN setup_testing(cfg) ELSE <<>>)
    \o setup_router(cfg)
    \o (IF Truthy(cfg.state_management) THEN setup_state_management(cfg) ELSE <<>>)
    \o (IF cfg.ci_cd THEN setup_ci_cd(cfg) ELSE <<>>)

run_features(cfg) ==
    << Progress(60, "Setting up project features...") >>
    \o setup_features(cfg)
    \o (IF cfg.testing THEN setup_testing(cfg) ELSE <<>>)
    \o (IF cfg.router THEN setup_router(cfg) ELSE <<>>)
    \o (IF Truthy(cfg.state_management) THEN setup_state_management(cfg) ELSE <<>>)
    \o (IF cfg.ci_cd THEN setup_ci_cd(cfg) ELSE <<>>)

run_git(cfg) ==
    IF cfg.git_integration THEN setup_git(cfg) ELSE <<>>

run_success ==
    << Progress(100, "Project created successfully!"),
       emit_log("run", "SUCCESS"),
       Finished(TRUE, "Project created successfully!") >>

run_except_SignalFirst(msg) ==
    << Finished(FALSE, msg), emit_log("run", "ERROR") >>

run_except_NoSignal(msg) ==
    << emit_log("run", "ERROR") >>

\* except Exception as e: emit_log(..., "ERROR"); finished.emit(False, str(e))
run_except(msg) ==
    << emit_log("run", "ERROR"), Finished(FALSE, msg) >>

run_ProgressBeforeGit(cfg) ==
    run_init(cfg) \o run_scaffold(cfg) \o run_install(cfg) \o run_features(cfg)
    \o << Progress(100, "Project created successfully!") >> \o run_git(cfg)
    \o << emit_log("run", "SUCCESS"), Finished(TRUE, "Project created successfully!") >>

run_GitBeforeFeatures(cfg) ==
    run_init(cfg) \o run_scaffold(cfg) \o run_install(cfg) \o run_git(cfg)
    \o run_features(cfg) \o run_success

run(cfg) ==
    run_init(cfg) \o run_scaffold(cfg) \o run_install(cfg) \o run_features(cfg)
    \o run_git(cfg) \o run_success

(***************************************************************************)
(* ProjectWorker.run_process: start the command, waitForFinished(), return *)
(* exitCode() == 0.  waitForFinished() is called without an argument, so   *)
(* it waits at most its default of 30000 ms: it returns when the process   *)
(* has exited, when it could not be started, or when that time is over     *)
(* and the process is still running.                                       *)
(***************************************************************************)
waitForFinished == {"exit0", "exit1", "failed_to_start", "timeout"}

\* What process.exitCode() reads after waitForFinished() ended that way: the exit
\* code of a process that exited; 0 (the value start() sets) while the process is
\* still running; after a failed start the value is not valid and depends on the
\* platform (0 where no child was created, 255 from the child that could not exec).
exitCode(outcome) ==
    CASE outcome = "exit0" -> {0}
      [] outcome = "exit1" -> {1}
      [] outcome = "timeout" -> {0}
      [] outcome = "failed_to_start" -> {0, 255}

run_process(code) == code = 0

Raises_InstallUnchecked(o, success) == ~success /\ o.stage # "install"

Raises_GitIgnored(o, success) == ~success /\ o.op # "git"

Raises_WriteIgnored(o, success) == ~success /\ o.op # "write"

\* "if not success: raise Exception(...)" after a run_process call; a failing
\* file-system or git call raises by itself.
Raises(o, success) == ~success

Handlers_OuterOnly(o, msg) == run_except(msg)

\* The handlers an exception raised by operation o passes through.
Handlers(o, msg) ==
    (IF o.try = "features" THEN setup_features_except
     ELSE IF o.try = "git" THEN setup_git_except
     ELSE <<>>)
    \o run_except(msg)

(***************************************************************************)
(* The state machine                                                       *)
(*                                                                         *)
(* The main window and the GitIntegration widget after construction        *)
(***************************************************************************)

\* ProjectConfig.create_default(), the window's project_config before any edit
create_default ==
    [ name |-> "",
      template |-> "react",
      git_integration |-> TRUE,
      testing |-> TRUE,
      test_framework |-> "vitest",
      styling_solution |-> "Tailwind CSS",
      typescript |-> TRUE,
      eslint |-> TRUE,
      prettier |-> TRUE,
      package_manager |-> "npm",
      router |-> TRUE,
      state_management |-> "Redux Toolkit",
      ci_cd |-> TRUE,
      deployment_platform |-> "Vercel" ]

\* ModernReactAutomator.__init__: project_config refers to the default object,
\* the attribute project_directory does not exist yet (None), no progress dialog.
ModernReactAutomator ==
    [ name_input |-> "",
      form |-> setup_project_form,
      project_config |-> 1,
      project_directory |-> None,
      confirmed |-> FALSE,
      progress_dialog |-> "none",
      last |-> "__init__" ]

\* GitIntegration.__init__: no worker, no project; the inputs are empty.
GitIntegration ==
    [ current_worker |-> 0,
      selected_project |-> None,
      commit_msg |-> "",
      url_input |-> "",
      handler |-> "idle" ]

\* A directory without a repository and without files
NoRepository ==
    [ exists |-> FALSE, tracked |-> {}, modified |-> {}, untracked |-> {}, staged |-> {},
      commits |-> <<>>, origin |-> None, heads |-> {}, head |-> None, pushed |-> <<>> ]

\* No GitWorker has been created.
NoThread ==
    [ operation |-> None, commit_message |-> <<>>, remote_url |-> None, branch |-> None,
      is_running |-> FALSE, pc |-> "none", progress |-> <<>>, finished |-> <<>>,
      calls |-> <<>>, before |-> [init_btn |-> FALSE, commit_btn |-> FALSE, push_btn |-> FALSE],
      repo_before |-> NoRepository, runs |-> 0 ]

\* update_button_states: with initial=True all three off, else by the project
update_button_states(selected, has_git) ==
    [ init_btn |-> selected /\ ~has_git, commit_btn |-> has_git, push_btn |-> has_git ]

\* The process with everything resolved and the window shown
Usable == [ npm_path |-> NpmPath, npx_path |-> NpxPath, git |-> TRUE, state |-> "usable" ]

\* The directory the application was launched in
LaunchDirectory == <<"launch">>

(***************************************************************************)
(* The worker thread                                                       *)
(***************************************************************************)
RECURSIVE NextFallible(_, _)
NextFallible(prog, i) ==
    IF i > Len(prog) THEN i
    ELSE IF Fallible(prog[i]) THEN i
    ELSE NextFallible(prog, i + 1)

Returned == pc = Len(program) + 1

\* No project is selected in the GitIntegration widget.
RepoIdle ==
    /\ repo = NoRepository
    /\ git_thread = NoThread
    /\ buttons = update_button_states(FALSE, FALSE)

\* The window is shown, and no project has been run.
RunnerIdle ==
    /\ app = Usable
    /\ cwd = LaunchDirectory
    /\ runners = <<>>
    /\ landed = {}

\* ProjectWorker.__init__: the worker holds cfg and has done nothing
Worker(cfg) ==
    /\ config = cfg
    /\ program = run(cfg)
    /\ pc = 0
    /\ trace = <<>>
    /\ lastProc = [cmd |-> <<>>, outcome |-> "none", result |-> FALSE, at |-> 0]

\* The window and its widgets as built, and a ProjectWorker for cfg, not started
Opened(cfg) ==
    /\ Worker(cfg)
    /\ window = ModernReactAutomator
    /\ heap = << create_default >>
    /\ workers = <<>>
    /\ disk = {}
    /\ git_widget = GitIntegration
    /\ git_workers = <<>>

\* ProjectWorker(config, npm_path, npx_path, project_directory), not yet started
Constructed(cfg) == Opened(cfg) /\ RepoIdle /\ RunnerIdle

Init == \E cfg \in Configs(MaxEdits) : Constructed(cfg)

FairInit == \E cfg \in Configs(MaxEditsFair) : Constructed(cfg)

\* Bound of the configurations handed to the constructor directly
MaxEditsAny == 1

\* test_framework: Optional[str]
TestFrameworks == {None, "vitest", "jest"}

\* ProjectWorker(config, ...) for a ProjectConfig of any test_framework: the
\* constructor takes the dataclass as it is, whoever built it.
AnyConfigInit ==
    \E cfg \in Configs(MaxEditsAny), tf \in TestFrameworks :
        Constructed([cfg EXCEPT !.test_framework = tf])

\* QThread.start(): run() begins on the worker thread.
start ==
    /\ pc = 0
    /\ pc' = 1
    /\ UNCHANGED <<config, trace, lastProc, program>>
    /\ UNCHANGED <<windowVars, gitVars, repoVars, runnerVars>>

\* Operation k is done: the signals before it and the operation itself (with its
\* outcome) are in the trace; when it raised, so are the handlers' signals, and
\* run() has returned.
Perform(prog, k, success, msg) ==
    LET done == trace \o SubSeq(prog, pc, k - 1)
                      \o << [prog[k] EXCEPT !.val = IF success THEN 1 ELSE 0] >>
    IN  IF Raises(prog[k], success)
        THEN /\ trace' = done \o Handlers(prog[k], msg)
             /\ pc' = Len(prog) + 1
        ELSE /\ trace' = done
             /\ pc' = k + 1

\* self.run_process(command) and the check of its result
RunProcess(prog, k) ==
    /\ prog[k].op = "proc"
    /\ \E outcome \in waitForFinished : \E code \in exitCode(outcome) :
          /\ lastProc' = [cmd |-> prog[k].cmd, outcome |-> outcome,
                          result |-> run_process(code),
                          at |-> Len(trace) + (k - pc) + 1]
          /\ Perform(prog, k, run_process(code), prog[k].text)
    /\ UNCHANGED <<config, program>>

\* os.chdir, Path.mkdir, os.makedirs + open(..., "w") + write
FileSystem(prog, k) ==
    /\ prog[k].op \in {"chdir", "mkdir", "write"}
    /\ \E ok \in BOOLEAN : Perform(prog, k, ok, "OSError")
    /\ UNCHANGED <<config, lastProc, program>>

\* git.Repo.init(), repo.index.add, repo.index.commit
GitCall(prog, k) ==
    /\ prog[k].op = "git"
    /\ \E ok \in BOOLEAN : Perform(prog, k, ok, "GitError")
    /\ UNCHANGED <<config, lastProc, program>>

\* Nothing fallible is left: the closing signals, and run() returns.
Finish(prog) ==
    /\ trace' = trace \o SubSeq(prog, pc, Len(prog))
    /\ pc' = Len(prog) + 1
    /\ UNCHANGED <<config, lastProc, program>>

\* os.chdir(path): the working directory of the whole process
os_chdir(directory, e) ==
    IF e.op = "chdir" /\ e.val = 1 THEN e.cmd ELSE directory

\* open(path, "w") with a relative path: the file goes to the working directory
\* of the moment
open_w(files, directory, e) ==
    IF e.op = "write" /\ e.val = 1
    THEN files \cup {[file |-> e.text, directory |-> directory]}
    ELSE files

\* The worker thread runs on to the end of its next fallible operation.
Step ==
    /\ pc >= 1
    /\ LET prog == program
           k == NextFallible(prog, pc)
       IN  /\ pc <= Len(prog)
           /\ IF k > Len(prog) THEN Finish(prog)
              ELSE RunProcess(prog, k) \/ FileSystem(prog, k) \/ GitCall(prog, k)
           /\ IF k > Len(prog) THEN UNCHANGED <<cwd, landed>>
              ELSE LET e == trace'[Len(trace) + (k - pc) + 1]
                   IN  /\ cwd' = os_chdir(cwd, e)
                       /\ landed' = open_w(landed, cwd, e)
    /\ UNCHANGED <<windowVars, gitVars, repoVars, app, runners>>

Next == start \/ Step

Spec == Init /\ [][Next]_vars

AnyConfigSpec == AnyConfigInit /\ [][Next]_vars

\* The worker thread is scheduled, and each of its blocking calls returns.
FairSpec == FairInit /\ [][Next]_vars /\ WF_vars(Step)

(***************************************************************************)
(* The main window: the project form, create_project and its workers       *)
(***************************************************************************)

\* Bounds of the window's behaviours
MaxConfigs == 4     \* ProjectConfig objects allocated by the window
MaxWorkers == 2     \* ProjectWorker threads started

\* What the user can type as project name
Names == {"", ProjectName}

\* os.path.join / Path.__truediv__
Join(directory, name) == <<directory, name>>

\* ProjectConfig(name=self.name_input.text(), template=..., ...)
ProjectConfigOf(name, form) == [update_project_config(form) EXCEPT !.name = name]

\* The forms one widget change away: the TypeScript and Git check boxes, the
\* template combo between its first two entries.
FormEdits(form) ==
    { [form EXCEPT !.typescript = ~@], [form EXCEPT !.git = ~@],
      [form EXCEPT !.template = IF @ = "react" THEN "next" ELSE "react"] }

\* A window-modal progress dialog that is visible takes the input of the window.
Interactive == window.progress_dialog # "open"

Assign_InPlace(h, ref, cfg) == [heap |-> [h EXCEPT ![ref] = cfg], ref |-> ref]

\* self.project_config = ProjectConfig(...): a new object, and the attribute is
\* bound to it; the object it referred to before is left as it was.
Assign(h, ref, cfg) == [heap |-> Append(h, cfg), ref |-> Len(h) + 1]

\* update_project_config, called by the signal of the widget that changed
update_project_config_slot(name, form, by) ==
    LET new == Assign(heap, window.project_config, ProjectConfigOf(name, form))
    IN  /\ Interactive
        /\ Len(heap) < MaxConfigs
        /\ heap' = new.heap
        /\ window' = [window EXCEPT !.name_input = name, !.form = form,
                                    !.project_config = new.ref, !.last = by]
        /\ UNCHANGED <<workers, disk, pipelineVars, gitVars, repoVars, runnerVars>>

\* name_input.textChanged
name_input_textChanged ==
    \E name \in Names \ {window.name_input} :
        update_project_config_slot(name, window.form, "textChanged")

\* stateChanged of a check box, currentTextChanged of a combo
form_changed ==
    \E form \in FormEdits(window.form) :
        update_project_config_slot(window.name_input, form, "stateChanged")

\* select_directory -> select_project_directory: the dialog's answer, the write
\* permission, and the answer to "Selected directory is not empty. Continue?"
select_project_directory ==
    /\ Interactive
    /\ \E directory \in {"", ProjectDirectory}, writable \in BOOLEAN, response \in {"Yes", "No"} :
          LET nonempty == <<directory>> \in disk
          IN  IF directory = "" \/ ~writable \/ (nonempty /\ response = "No")
              THEN window' = [window EXCEPT !.last = "select_project_directory"]
              ELSE window' = [window EXCEPT !.project_directory = directory,
                                            !.confirmed = nonempty,
                                            !.last = "select_project_directory"]
    /\ UNCHANGED <<heap, workers, disk, pipelineVars, gitVars, repoVars, runnerVars>>

\* clear_form: every widget back to its first state, and the widgets that change
\* call update_project_config; delattr(self, 'project_directory')
clear_form ==
    LET changed == window.name_input # "" \/ window.form # setup_project_form
        new == IF changed
               THEN Assign(heap, window.project_config, ProjectConfigOf("", setup_project_form))
               ELSE [heap |-> heap, ref |-> window.project_config]
    IN  /\ Interactive
        /\ changed => Len(heap) < MaxConfigs
        /\ heap' = new.heap
        /\ window' = [window EXCEPT !.name_input = "", !.form = setup_project_form,
                                    !.project_config = new.ref,
                                    !.project_directory = None,
                                    !.confirmed = FALSE,
                                    !.last = "clear_form"]
        /\ UNCHANGED <<workers, disk, pipelineVars, gitVars, repoVars, runnerVars>>

create_project_NameOnly(name, directory) ==
    IF name = "" THEN "name_required" ELSE "start"

\* The two checks at the head of create_project
create_project_validate(name, directory) ==
    IF name = "" THEN "name_required"
    ELSE IF ~Truthy(directory) THEN "directory_required"
    ELSE "start"

\* ProjectWorker(self.project_config, npm_path, npx_path, self.project_directory);
\* at_start, target_existed and confirmed record the moment of the call.
ProjectWorker(w, h, d) ==
    [ config |-> w.project_config,
      project_directory |-> w.project_directory,
      state |-> "running",
      step |-> 0,
      read |-> {},
      at_start |-> [name |-> w.name_input, form |-> w.form],
      target_existed |-> Join(w.project_directory, h[w.project_config].name) \in d,
      confirmed |-> w.confirmed ]

\* create_project, from the Create Project button or the New Project action:
\* a warning and return, or a worker, the progress dialog, and start()
create_project ==
    /\ Interactive
    /\ \E trigger \in {"create_btn", "new_action"} :
          LET check == create_project_validate(heap[window.project_config].name,
                                               window.project_directory)
          IN  IF check # "start"
              THEN /\ window' = [window EXCEPT !.last = check]
                   /\ UNCHANGED workers
              ELSE /\ Len(workers) < MaxWorkers
                   /\ workers' = Append(workers, ProjectWorker(window, heap, disk))
                   /\ window' = [window EXCEPT !.progress_dialog = "open", !.last = "start"]
    /\ UNCHANGED <<heap, disk, pipelineVars, gitVars, repoVars, runnerVars>>

\* Escape, or the close button of the dialog's title bar: QDialog.reject()
progress_dialog_reject ==
    /\ window.progress_dialog = "open"
    /\ window' = [window EXCEPT !.progress_dialog = "closed", !.last = "reject"]
    /\ UNCHANGED <<heap, workers, disk, pipelineVars, gitVars, repoVars, runnerVars>>

\* ProjectWorker.run up to the scaffolder: it reads self.config and creates
\* <project_directory>/<name>, parents=True, exist_ok=True
ProjectWorker_mkdir(i) ==
    /\ workers[i].state = "running" /\ workers[i].step = 0
    /\ LET cfg == heap[workers[i].config]
       IN  /\ workers' = [workers EXCEPT ![i].step = 1, ![i].read = @ \cup {cfg}]
           /\ disk' = disk \cup { <<workers[i].project_directory>>,
                                  Join(workers[i].project_directory, cfg.name) }
    /\ UNCHANGED <<window, heap, pipelineVars, gitVars, repoVars, runnerVars>>

\* The rest of ProjectWorker.run, which reads self.config stage by stage, its
\* finished signal, and handle_completion: self.progress_dialog.close()
ProjectWorker_finished(i) ==
    /\ workers[i].state = "running" /\ workers[i].step = 1
    /\ workers' = [workers EXCEPT ![i].state = "finished",
                                  ![i].read = @ \cup {heap[workers[i].config]}]
    /\ window' = [window EXCEPT !.progress_dialog = "closed", !.last = "handle_completion"]
    /\ UNCHANGED <<heap, disk, pipelineVars, gitVars, repoVars, runnerVars>>

\* The worker threads run whenever they are scheduled.
ProjectWorker_run ==
    \E i \in DOMAIN workers : ProjectWorker_mkdir(i) \/ ProjectWorker_finished(i)

\* The window as constructed: nothing typed, nothing selected, no worker started.
WindowInit == Constructed(update_project_config(setup_project_form))

WindowNext ==
    \/ name_input_textChanged
    \/ form_changed
    \/ select_project_directory
    \/ clear_form
    \/ create_project
    \/ progress_dialog_reject
    \/ ProjectWorker_run

WindowSpec == WindowInit /\ [][WindowNext]_vars

(***************************************************************************)
(* The GitIntegration widget and its GitWorker threads                     *)
(***************************************************************************)

MaxGitWorkers == 2  \* GitWorker threads created by the widget

\* The operation values the widget passes to GitWorker
Operations == {"init", "commit", "push"}

\* GitWorker.__init__
GitWorker(operation) ==
    [ operation |-> operation,
      is_running |-> TRUE,
      thread |-> "started",
      progress |-> <<>>,
      finished |-> <<>> ]

\* QThread.isRunning(): from start() until run() has returned
isRunning(worker) == worker.thread \in {"started", "working"}

wait_NoJoin(worker) == TRUE

\* QThread.wait(), no timeout: returns once run() has returned
wait(worker) == ~isRunning(worker)

\* A directory select_project accepts
SelectedProject == "projects/demo"

\* The handler has a project path: the selected project, and for
\* init_repository else the main window's project directory.
has_project_path(operation) ==
    \/ Truthy(git_widget.selected_project)
    \/ operation = "init" /\ Truthy(window.project_directory)

\* The checks at the head of init_repository, create_commit, push_to_remote
Accepted(operation) ==
    /\ has_project_path(operation)
    /\ operation = "commit" => git_widget.commit_msg # ""
    /\ operation = "push" => git_widget.url_input # ""

\* select_project with a directory the widget accepts, and typing into the
\* commit message and remote URL inputs
git_inputs ==
    /\ git_widget.handler = "idle"
    /\ \/ \E d \in {SelectedProject} \ {git_widget.selected_project} :
             git_widget' = [git_widget EXCEPT !.selected_project = d]
       \/ \E m \in {"", "message"} \ {git_widget.commit_msg} :
             git_widget' = [git_widget EXCEPT !.commit_msg = m]
       \/ \E u \in {"", "url"} \ {git_widget.url_input} :
             git_widget' = [git_widget EXCEPT !.url_input = u]
    /\ UNCHANGED <<git_workers, pipelineVars, windowVars, repoVars, runnerVars>>

\* self.current_worker = GitWorker(...); connect; start()
start_worker(ws, operation) ==
    /\ Len(ws) < MaxGitWorkers
    /\ git_workers' = Append(ws, GitWorker(operation))
    /\ git_widget' = [git_widget EXCEPT !.current_worker = Len(ws) + 1, !.handler = "idle"]

\* init_repository, create_commit, push_to_remote: a warning and return; or
\* stop() of a worker that is running, whose wait() blocks the GUI thread; or
\* the new worker at once.
git_operation ==
    /\ git_widget.handler = "idle"
    /\ \E operation \in Operations :
          LET cur == git_widget.current_worker
          IN  IF ~Accepted(operation)
              THEN UNCHANGED <<git_widget, git_workers>>
              ELSE IF cur # 0 /\ isRunning(git_workers[cur])
              THEN /\ git_workers' = [git_workers EXCEPT ![cur].is_running = FALSE]
                   /\ git_widget' = [git_widget EXCEPT !.handler = operation]
              ELSE start_worker(git_workers, operation)
    /\ UNCHANGED <<pipelineVars, windowVars, repoVars, runnerVars>>

\* closeEvent: stop() of a worker that is running
closeEvent ==
    /\ git_widget.handler = "idle"
    /\ git_widget.current_worker # 0
    /\ isRunning(git_workers[git_widget.current_worker])
    /\ git_workers' = [git_workers EXCEPT ![git_widget.current_worker].is_running = FALSE]
    /\ git_widget' = [git_widget EXCEPT !.handler = "closeEvent"]
    /\ UNCHANGED <<pipelineVars, windowVars, repoVars, runnerVars>>

\* stop() returns from wait(), and the handler goes on to start its worker.
stop_returns ==
    /\ git_widget.handler # "idle"
    /\ wait(git_workers[git_widget.current_worker])
    /\ IF git_widget.handler = "closeEvent"
       THEN /\ git_widget' = [git_widget EXCEPT !.handler = "idle"]
            /\ UNCHANGED git_workers
       ELSE start_worker(git_workers, git_widget.handler)
    /\ UNCHANGED <<pipelineVars, windowVars, repoVars, runnerVars>>

\* GitWorker.run, its head: return at once when stopped, else the progress
\* signal of the operation
GitWorker_run_begin(i) ==
    /\ git_workers[i].thread = "started"
    /\ git_workers' =
          IF ~git_workers[i].is_running
          THEN [git_workers EXCEPT ![i].thread = "returned"]
          ELSE [git_workers EXCEPT ![i].thread = "working",
                                   ![i].progress = Append(@, git_workers[i].operation)]
    /\ UNCHANGED <<git_widget, pipelineVars, windowVars, repoVars, runnerVars>>

\* GitWorker.run, the git calls of the operation: finished(True, ...) when they
\* return, and when they raise finished(False, ...) unless stopped
GitWorker_run_end(i) ==
    /\ git_workers[i].thread = "working"
    /\ \E ok \in BOOLEAN :
          git_workers' =
             [git_workers EXCEPT ![i].thread = "returned",
                                 ![i].finished = IF ok THEN Append(@, TRUE)
                                                 ELSE IF git_workers[i].is_running
                                                 THEN Append(@, FALSE)
                                                 ELSE @]
    /\ UNCHANGED <<git_widget, pipelineVars, windowVars, repoVars, runnerVars>>

\* The worker threads run whenever they are scheduled.
GitWorker_run ==
    \E i \in DOMAIN git_workers : GitWorker_run_begin(i) \/ GitWorker_run_end(i)

\* The widget as constructed, in the window as constructed
GitInit == Constructed(update_project_config(setup_project_form))

GitNext ==
    \/ git_inputs
    \/ git_operation
    \/ closeEvent
    \/ stop_returns
    \/ GitWorker_run

GitSpec == GitInit /\ [][GitNext]_vars

(***************************************************************************)
(* One GitWorker, statement by statement, on the selected project          *)
(***************************************************************************)

MaxGitRuns == 1     \* GitWorkers run one after the other

\* Files of the project: two sources, a tracked file, a file of a dependency
SrcNew1 == <<"src", "api.ts">>
SrcNew2 == <<"src", "utils.ts">>
Readme == <<"README.md">>
Dep == <<"node_modules", "pkg", "index.js">>

\* item.startswith('node_modules/')
startswith_node_modules(item) == Len(item) > 1 /\ item[1] = "node_modules"

\* The projects select_project accepts: a directory without a repository, or a
\* repository with nothing, one file, or that file and a dependency's file
\* tracked; tracked files may be modified, the others may be new.
Repositories ==
    { NoRepository } \cup
    { [ exists |-> TRUE, tracked |-> x[1], modified |-> x[2], untracked |-> x[3] \ x[1],
        staged |-> {},
        commits |-> IF x[1] = {} THEN <<>> ELSE << [message |-> <<"first">>, files |-> x[1]] >>,
        origin |-> x[4], heads |-> IF x[1] = {} THEN {} ELSE {"main"}, head |-> "main",
        pushed |-> <<>> ] :
        x \in { y \in {{}, {Readme}, {Readme, Dep}} \X {{}, {Readme}, {Readme, Dep}}
                      \X {{}, {SrcNew1, SrcNew2}, {SrcNew1, SrcNew2, Dep}} \X {None, "https://old"} :
                  y[2] \subseteq y[1] } }

\* What the user types as commit message, in words; none for the default
CommitMessages == { <<>>, <<"fix", "typo">>, <<"Initialized", "store">> }

\* str.lower(), word by word
lower(word) ==
    CASE word = "Initialized" -> "initialized"
      [] word = "Repository" -> "repository"
      [] word = "Changes" -> "changes"
      [] OTHER -> word

\* `word in message.lower()`
Contains(message, word) == \E n \in DOMAIN message : lower(message[n]) = word

\* The message of finished(True, ...) of each operation
Success(operation, message) ==
    CASE operation = "init" -> <<"Repository", "initialized", "successfully">>
      [] operation = "commit" ->
            <<"Changes", "committed", "successfully", "with", "message:">> \o message
      [] operation = "push" -> <<"Changes", "pushed", "to", "remote", "successfully">>

\* handle_git_operation
handle_git_operation(b, success, message) ==
    IF ~success THEN b
    ELSE IF Contains(message, "initialized") THEN [b EXCEPT !.init_btn = FALSE, !.commit_btn = TRUE]
    ELSE IF Contains(message, "committed") THEN [b EXCEPT !.commit_btn = FALSE, !.push_btn = TRUE]
    ELSE IF Contains(message, "pushed") THEN [b EXCEPT !.push_btn = FALSE]
    ELSE b

\* The widget with a project selected: select_project, update_button_states
RepoInit ==
    /\ Opened(update_project_config(setup_project_form))
    /\ RunnerIdle
    /\ repo \in Repositories
    /\ git_thread = NoThread
    /\ buttons = update_button_states(TRUE, repo.exists)

\* init_repository, create_commit, push_to_remote: GitWorker(...), start()
GitThread_start ==
    /\ git_thread.pc \in {"none", "returned"}
    /\ git_thread.runs < MaxGitRuns
    /\ \E operation \in Operations, message \in CommitMessages, branch \in {"main", "develop"} :
          /\ operation # "commit" => message = <<>>
          /\ operation # "push" => branch = "main"
          /\ git_thread' =
                [ operation |-> operation,
                  commit_message |-> message,
                  remote_url |-> IF operation = "push" THEN "https://new" ELSE None,
                  branch |-> IF operation = "push" THEN branch ELSE None,
                  is_running |-> TRUE, pc |-> "started",
                  progress |-> <<>>, finished |-> <<>>, calls |-> <<>>,
                  before |-> buttons, repo_before |-> repo, runs |-> git_thread.runs + 1 ]
    /\ UNCHANGED <<repo, buttons, pipelineVars, windowVars, gitVars, runnerVars>>

\* GitWorker.stop(), from a handler or closeEvent, while the thread runs
GitThread_stop ==
    /\ git_thread.pc \notin {"none", "returned"}
    /\ git_thread.is_running
    /\ git_thread' = [git_thread EXCEPT !.is_running = FALSE]
    /\ UNCHANGED <<repo, buttons, pipelineVars, windowVars, gitVars, runnerVars>>

\* The statements of each operation after its progress signal, in order
Statements(operation) ==
    CASE operation = "init" -> <<"Repo.init">>
      [] operation = "commit" -> <<"Repo", "add untracked", "add modified", "commit">>
      [] operation = "push" -> <<"Repo", "remote", "create_head", "checkout", "push">>

\* The statement after label l of the operation, "emit" when l is its last
After(operation, l) ==
    LET st == Statements(operation)
        n == CHOOSE n \in DOMAIN st : st[n] = l
    IN  IF n = Len(st) THEN "emit" ELSE st[n + 1]

\* The statement raises whatever the file system and the remote do.
MustRaise(l) ==
    \/ l = "Repo" /\ ~repo.exists
    \/ l = "create_head" /\ git_thread.branch \notin repo.heads /\ repo.commits = <<>>

\* The repository after statement l has succeeded
Effect(l) ==
    CASE l = "Repo.init" -> [repo EXCEPT !.exists = TRUE]
      [] l = "Repo" -> repo
      [] l = "add untracked" ->
            LET items == {f \in repo.untracked : ~startswith_node_modules(f)}
            IN  [repo EXCEPT !.staged = @ \cup items, !.untracked = @ \ items]
      [] l = "add modified" ->
            [repo EXCEPT !.staged = @ \cup repo.modified, !.modified = {}]
      [] l = "commit" ->
            [repo EXCEPT !.commits = Append(@, [message |-> IF git_thread.commit_message # <<>>
                                                            THEN git_thread.commit_message
                                                            ELSE <<"Initial", "commit:", "Project", "setup">>,
                                                files |-> repo.staged]),
                         !.tracked = @ \cup repo.staged,
                         !.heads = @ \cup {repo.head},
                         !.staged = {}]
      [] l = "remote" -> [repo EXCEPT !.origin = git_thread.remote_url]
      [] l = "create_head" -> [repo EXCEPT !.heads = @ \cup {git_thread.branch}]
      [] l = "checkout" -> [repo EXCEPT !.head = git_thread.branch]
      [] l = "push" -> [repo EXCEPT !.pushed = Append(@, <<git_thread.branch, git_thread.branch>>)]

\* What a statement can do: return, raise, or, for origin.push only, return a
\* result that carries the error of a push the remote did not accept
Outcomes(l) ==
    IF MustRaise(l) THEN {"raises"}
    ELSE IF l = "push" THEN {"returns", "raises", "returns error"}
    ELSE {"returns", "raises"}

\* GitWorker.run: the check of the flag and the progress signal
GitThread_begin ==
    /\ git_thread.pc = "started"
    /\ git_thread' =
          IF ~git_thread.is_running
          THEN [git_thread EXCEPT !.pc = "returned"]
          ELSE [git_thread EXCEPT !.pc = Statements(git_thread.operation)[1],
                                  !.progress = Append(@, git_thread.operation)]
    /\ UNCHANGED <<repo, buttons, pipelineVars, windowVars, gitVars, runnerVars>>

\* The commit message used: the caller's, or the default
Message(thread) ==
    IF thread.commit_message # <<>> THEN thread.commit_message
    ELSE <<"Initial", "commit:", "Project", "setup">>

\* GitWorker.run: one git call; after the last one finished(True, ...); when a
\* call raises, finished(False, ...) unless stopped. handle_git_operation
\* receives the signal.
GitThread_statement ==
    /\ git_thread.pc \notin {"none", "started", "returned"}
    /\ \E outcome \in Outcomes(git_thread.pc) :
          LET l == git_thread.pc
              next == After(git_thread.operation, l)
              message == Success(git_thread.operation, IF git_thread.commit_message # <<>>
                                                       THEN git_thread.commit_message
                                                       ELSE <<"Initial", "commit:", "Project", "setup">>)
              called == Append(git_thread.calls, [call |-> l, outcome |-> outcome])
          IN  IF outcome = "raises"
              THEN /\ git_thread' = [git_thread EXCEPT
                                        !.pc = "returned", !.calls = called,
                                        !.finished = IF git_thread.is_running
                                                     THEN Append(@, [ok |-> FALSE, message |-> <<"error">>])
                                                     ELSE @]
                   /\ UNCHANGED <<repo, buttons>>
              ELSE /\ repo' = IF outcome = "returns" THEN Effect(l) ELSE repo
                   /\ IF next = "emit"
                      THEN /\ git_thread' = [git_thread EXCEPT
                                                !.pc = "returned", !.calls = called,
                                                !.finished = Append(@, [ok |-> TRUE, message |-> message])]
                           /\ buttons' = handle_git_operation(buttons, TRUE, message)
                      ELSE /\ git_thread' = [git_thread EXCEPT !.pc = next, !.calls = called]
                           /\ UNCHANGED buttons
    /\ UNCHANGED <<pipelineVars, windowVars, gitVars, runnerVars>>

RepoNext ==
    \/ GitThread_start
    \/ GitThread_stop
    \/ GitThread_begin
    \/ GitThread_statement

RepoSpec == RepoInit /\ [][RepoNext]_vars

(***************************************************************************)
(* Running the project: toggle_project_run and the ProjectRunner threads,  *)
(* beside a pipeline run                                                   *)
(***************************************************************************)

MaxRunners == 2     \* ProjectRunner threads started

\* The form as filled in when Run Project is enabled: TypeScript on or off
RunnerForms == { setup_project_form, [setup_project_form EXCEPT !.typescript = TRUE] }

\* A project was opened or created before, so run_btn is enabled; the user has
\* selected the directory and typed the name; config is what create_project
\* will hand to its worker. The target directory may exist already.
RunnerInit ==
    /\ \E form \in RunnerForms :
          /\ Worker(ProjectConfigOf(ProjectName, form))
          /\ heap = << create_default, ProjectConfigOf(ProjectName, form) >>
          /\ window = [ModernReactAutomator EXCEPT !.name_input = ProjectName, !.form = form,
                                                   !.project_config = 2,
                                                   !.project_directory = ProjectDirectory,
                                                   !.last = "stateChanged"]
    /\ workers = <<>>
    /\ disk \in { {}, {<<ProjectDirectory>>},
                  {<<ProjectDirectory>>, Join(ProjectDirectory, ProjectName)} }
    /\ git_widget = GitIntegration
    /\ git_workers = <<>>
    /\ RepoIdle
    /\ app = Usable
    /\ cwd = LaunchDirectory
    /\ runners = <<>>
    /\ landed = {}

\* os.path.exists(path): there from the start, or made by the pipeline run
exists(path) ==
    \/ path \in disk
    \/ /\ path = Join(ProjectDirectory, config.name)
       /\ \E i \in DOMAIN trace : trace[i].op = "mkdir" /\ trace[i].val = 1

\* create_project with the name and the directory given: the worker, the
\* window-modal progress dialog, start()
create_project_start ==
    /\ pc = 0
    /\ Interactive
    /\ pc' = 1
    /\ window' = [window EXCEPT !.progress_dialog = "open", !.last = "start"]
    /\ UNCHANGED <<config, trace, lastProc, program, heap, workers, disk,
                   gitVars, repoVars, runnerVars>>

\* handle_completion, on the finished signal: self.progress_dialog.close()
handle_completion ==
    /\ Returned
    /\ window.progress_dialog = "open"
    /\ window' = [window EXCEPT !.progress_dialog = "closed", !.last = "handle_completion"]
    /\ UNCHANGED <<pipelineVars, heap, workers, disk, gitVars, repoVars, runnerVars>>

\* Escape in the progress dialog while the worker runs
dialog_rejected ==
    /\ progress_dialog_reject

\* ProjectRunner(project_path, npm_path): no process, running False
ProjectRunner(project_path) ==
    [ project_path |-> project_path, running |-> FALSE, process |-> "none",
      thread |-> "started", stopped |-> FALSE ]

\* ProjectRunner.stop: kills the process if there is one and running is set,
\* and clears running; it does not wait for the thread.
stop(runner) ==
    IF runner.process # "none" /\ runner.running
    THEN [runner EXCEPT !.process = "killed", !.running = FALSE, !.stopped = TRUE]
    ELSE runner

\* toggle_project_run, from run_btn: unless the latest runner has running set,
\* a warning when no directory is selected, else a new ProjectRunner on
\* <project_directory>/<name>, or on project_directory when that does not
\* exist; when running is set, stop()
toggle_project_run ==
    /\ Interactive
    /\ LET target == Join(window.project_directory, heap[window.project_config].name)
       IN  IF runners = <<>> \/ ~runners[Len(runners)].running
           THEN IF ~Truthy(window.project_directory)
                THEN UNCHANGED runners
                ELSE /\ Len(runners) < MaxRunners
                     /\ runners' = Append(runners,
                                          ProjectRunner(IF target[2] # "" /\ exists(target)
                                                        THEN target
                                                        ELSE <<window.project_directory>>))
           ELSE runners' = [runners EXCEPT ![Len(runners)] = stop(@)]
    /\ UNCHANGED <<pipelineVars, windowVars, gitVars, repoVars, app, cwd, landed>>

\* ProjectRunner.run: self.running = True; os.chdir(self.project_path)
ProjectRunner_begin(i) ==
    /\ runners[i].thread = "started"
    /\ runners' = [runners EXCEPT ![i].running = TRUE, ![i].thread = "began"]
    /\ cwd' = runners[i].project_path

\* ProjectRunner.run: the installs where needed, then the dev server's process
\* and waitForFinished(-1); an install that fails raises, and finally clears
\* running
ProjectRunner_launch(i) ==
    /\ runners[i].thread = "began"
    /\ \E ok \in BOOLEAN :
          runners' = IF ok
                     THEN [runners EXCEPT ![i].process = "running", ![i].thread = "waiting"]
                     ELSE [runners EXCEPT ![i].running = FALSE, ![i].thread = "returned"]
    /\ UNCHANGED cwd

\* ProjectRunner.run: the process has finished, killed or by itself;
\* waitForFinished returns, finally clears running, run() returns
ProjectRunner_returns(i) ==
    /\ runners[i].thread = "waiting"
    /\ runners' = [runners EXCEPT ![i].running = FALSE, ![i].thread = "returned",
                                  ![i].process = IF @ = "killed" THEN @ ELSE "exited"]
    /\ UNCHANGED cwd

\* The runner threads run whenever they are scheduled.
ProjectRunner_run ==
    /\ \E i \in DOMAIN runners :
          ProjectRunner_begin(i) \/ ProjectRunner_launch(i) \/ ProjectRunner_returns(i)
    /\ UNCHANGED <<pipelineVars, windowVars, gitVars, repoVars, app, landed>>

RunnerNext ==
    \/ create_project_start
    \/ Step
    \/ handle_completion
    \/ dialog_rejected
    \/ toggle_project_run
    \/ ProjectRunner_run

RunnerSpec == RunnerInit /\ [][RunnerNext]_vars

(***************************************************************************)
(* Startup: main(), the imports and the window's constructor               *)
(***************************************************************************)

\* The process as launched: what the search path resolves
StartupInit ==
    /\ Opened(update_project_config(setup_project_form))
    /\ RepoIdle
    /\ \E npm \in {None, NpmPath}, npx \in {None, NpxPath}, has_git \in BOOLEAN :
          app = [ npm_path |-> npm, npx_path |-> npx, git |-> has_git, state |-> "main" ]
    /\ cwd = LaunchDirectory
    /\ runners = <<>>
    /\ landed = {}

\* import git, whose check of the git executable raises or not as the
\* library is set up; then ModernReactAutomator(): setup_npm_paths, which
\* exits unless npm and npx are both resolved; then show() and exec_()
main ==
    /\ app.state = "main"
    /\ \E refresh \in {"raise", "quiet"} :
          app' = [app EXCEPT !.state =
                     IF ~app.git /\ refresh = "raise" THEN "exited"
                     ELSE IF ~(Truthy(app.npm_path) /\ Truthy(app.npx_path)) THEN "exited"
                     ELSE "usable"]
    /\ UNCHANGED <<pipelineVars, windowVars, gitVars, repoVars, cwd, runners, landed>>

\* Bound of the startup's behaviours
MaxStarted == 2     \* threads started in all: ProjectWorker, GitWorker, ProjectRunner

\* The event loop: what the user does in the window once it is shown, and the
\* threads that starts. run_btn is enabled once a project has been created.
exec_ ==
    /\ app.state = "usable"
    /\ \/ name_input_textChanged
       \/ select_project_directory
       \/ create_project
       \/ ProjectWorker_run
       \/ git_inputs
       \/ git_operation
       \/ GitWorker_run
       \/ (\E i \in DOMAIN workers : workers[i].state = "finished") /\ toggle_project_run
       \/ ProjectRunner_run
    /\ Len(workers') + Len(git_workers') + Len(runners') <= MaxStarted

StartupNext == main \/ exec_

StartupSpec == StartupInit /\ [][StartupNext]_vars

(***************************************************************************)
(* Reading the trace                                                       *)
(***************************************************************************)
FeatureStages == {"typescript", "styling", "linting", "testing", "router", "state", "cicd", "deploy"}

Failed(e) == Fallible(e) /\ e.val = 0
HasFailure == \E i \in DOMAIN trace : Failed(trace[i])
FinishedAt == {i \in DOMAIN trace : trace[i].op = "finished"}
FinishedWith(val) == \E i \in FinishedAt : trace[i].val = val
ErrorLogs == {i \in DOMAIN trace : trace[i].op = "log" /\ trace[i].text = "ERROR"}
Written(path) == \E i \in DOMAIN trace : trace[i].op = "write" /\ trace[i].text = path /\ trace[i].val = 1
ProcReturned(stage, val) ==
    {i \in DOMAIN trace : trace[i].op = "proc" /\ trace[i].stage = stage /\ trace[i].val = val}

C2_BaseFailureShortCircuit ==
    \A i \in ProcReturned("scaffold", 0) \cup ProcReturned("install", 0) :
        /\ \A j \in DOMAIN trace : trace[j].stage \notin FeatureStages \cup {"git"}
        /\ \A j \in (i + 1)..Len(trace) : ~Fallible(trace[j])
        /\ trace[Len(trace)] = Finished(FALSE, trace[i].text)

\* The base install failed in a run whose configuration asks for features.
C2_Witness ==
    /\ ProcReturned("install", 0) # {}
    /\ config.typescript /\ config.router /\ config.git_integration

(***************************************************************************)
(* C3: run_process returns only after the external process has exited: in  *)
(* no state has the pipeline gone on (emitted, run or written anything)    *)
(* while the process of its latest run_process call is still running.      *)
(***************************************************************************)
C3_ReturnsAfterExit ==
    ~(lastProc.outcome = "timeout" /\ Len(trace) > lastProc.at)

(***************************************************************************)
(* C4: run_process returns True exactly when the process was started and   *)
(* exited with code zero.                                                  *)
(***************************************************************************)
C4_TrueIffExitZero ==
    lastProc.outcome # "none" => (lastProc.result <=> lastProc.outcome = "exit0")

C6_FinishedOnceAndLast ==
    /\ Cardinality(FinishedAt) <= 1
    /\ \A i \in FinishedAt : i = Len(trace)
    /\ Returned => Cardinality(FinishedAt) = 1

\* A run that failed in setup_git has returned.
C6_Witness ==
    /\ Returned /\ FinishedWith(0)
    /\ \E i \in DOMAIN trace : trace[i].op = "git" /\ Failed(trace[i])

C8_OneErrorLine ==
    Returned /\ HasFailure => Cardinality(ErrorLogs) = 1

(***************************************************************************)
(* C8 amended: a failed run appends the ERROR line of run()'s handler, and *)
(* before it one more ERROR line exactly when the failure happened inside  *)
(* setup_features (TypeScript, styling, linting) or setup_git, whose own   *)
(* handlers log and re-raise: two ERROR lines there, one elsewhere.        *)
(***************************************************************************)
C8_ErrorLines ==
    Returned /\ HasFailure
    => LET i == CHOOSE i \in DOMAIN trace : Failed(trace[i])
       IN  /\ Cardinality(ErrorLogs) =
                 IF trace[i].stage \in {"typescript", "styling", "linting", "git"} THEN 2 ELSE 1
           /\ \A j \in ErrorLogs : j > i
           /\ Len(trace) - 1 \in ErrorLogs

\* A run failed while linting was being set up.
C8_Witness ==
    /\ Returned
    /\ \E i \in DOMAIN trace : trace[i].stage = "linting" /\ Failed(trace[i])

(***************************************************************************)
(* C9: with testing, router, state management and deployment platform all  *)
(* off, a run writes no file of those areas and runs no install for them,  *)
(* whatever the other fields are.                                          *)
(***************************************************************************)
AreaFiles ==
    { "src/test/setup.ts", "src/test/App.test.tsx",
      "src/router/index.tsx", "src/pages/Home.tsx", "src/pages/About.tsx", "src/pages/NotFound.tsx",
      "src/store/index.ts", "src/store/slices/counterSlice.ts",
      "vercel.json" }

AreaPackages ==
    { "vitest", "jest", "@testing-library/react", "react-router-dom",
      "@reduxjs/toolkit", "react-redux", "zustand" }

C9_DisabledAreasUntouched ==
    ( /\ ~config.testing /\ ~config.router
      /\ config.state_management = None /\ config.deployment_platform = None )
    => \A i \in DOMAIN trace :
          /\ trace[i].stage \notin {"testing", "router", "state", "deploy"}
          /\ trace[i].op = "write" => trace[i].text \notin AreaFiles
          /\ trace[i].op = "proc"
             => \A n \in DOMAIN trace[i].cmd : trace[i].cmd[n] \notin AreaPackages

\* A successful run of such a configuration with other features on.
C9_Witness ==
    /\ Returned /\ FinishedWith(1)
    /\ ~config.testing /\ ~config.router
    /\ config.state_management = None /\ config.deployment_platform = None
    /\ config.typescript /\ config.ci_cd /\ config.styling_solution = "Tailwind CSS"

(***************************************************************************)
(* C10: in a successful run a deployment descriptor is written exactly     *)
(* when a deployment platform is selected, whatever ci_cd is, and the CI   *)
(* workflow descriptor exactly when ci_cd is set.                          *)
(***************************************************************************)
C10_DescriptorsWritten ==
    Returned /\ FinishedWith(1)
    => /\ (\E i \in DOMAIN trace : trace[i].stage = "deploy" /\ trace[i].op = "write")
          <=> config.deployment_platform # None
       /\ Written(".github/workflows/ci.yml") <=> config.ci_cd


(***************************************************************************)
(* C11 as stated: the scaffolding command of every run is the scaffolder   *)
(* resolved at startup (npx, here with or without its create-vite@latest   *)
(* argument), config.name, "--template", T, with T the template, "-ts"     *)
(* appended when typescript is set; for every selectable template.         *)
(***************************************************************************)
ExpectedTemplate(cfg) ==
    IF ~cfg.typescript THEN cfg.template
    ELSE CASE cfg.template = "react" -> "react-ts"
           [] cfg.template = "next" -> "next-ts"
           [] cfg.template = "remix" -> "remix-ts"
           [] cfg.template = "gatsby" -> "gatsby-ts"

ScaffoldCalls == {i \in DOMAIN trace : trace[i].op = "proc" /\ trace[i].stage = "scaffold"}

RECURSIVE ProgressValues(_)
ProgressValues(t) ==
    IF t = <<>> THEN <<>>
    ELSE (IF Head(t).op = "progress" THEN <<Head(t).val>> ELSE <<>>) \o ProgressValues(Tail(t))

C12_FinalizeStage ==
    Returned /\ FinishedWith(1)
    => /\ ProgressValues(trace) = <<0, 20, 40, 60, 80, 100>>
       /\ Written("package.json")

(***************************************************************************)
(* C13: the progress values of a run never decrease and lie in 0..100;     *)
(* progress 100 is emitted exactly in the runs that end with               *)
(* finished(True, ...), after every operation of the run has succeeded     *)
(* (with git_integration, after the commit of setup_git), and nothing      *)
(* fallible follows it.                                                    *)
(***************************************************************************)
Progress100At == {i \in DOMAIN trace : trace[i].op = "progress" /\ trace[i].val = 100}

C14_GitFailure ==
    \A i \in DOMAIN trace :
        trace[i].stage = "git" /\ Failed(trace[i])
        => /\ config.git_integration
           /\ trace[Len(trace)].op = "finished" /\ trace[Len(trace)].val = 0
           /\ Progress100At = {}
           /\ \A j \in (i + 1)..Len(trace) : trace[j].op \in {"log", "finished"}
           /\ \A j \in 1..(i - 1) : trace[j].val = 1 \/ ~Fallible(trace[j])

\* The commit failed after tsconfig.json and .gitignore had been written.
C14_Witness ==
    /\ \E i \in DOMAIN trace : trace[i].op = "git" /\ trace[i].text = "commit" /\ Failed(trace[i])
    /\ Written("tsconfig.json") /\ Written(".gitignore")


(***************************************************************************)
(* C15: create_project starts no worker when the project name is empty or  *)
(* no directory is selected: it shows its warning and returns, and the     *)
(* workers are as before; every worker was started with a name and a       *)
(* directory; after clear_form the name is empty and no directory is       *)
(* selected, so no run starts until both are given again.                  *)
(***************************************************************************)
NameEmpty == heap[window.project_config].name = ""
NoDirectory == ~Truthy(window.project_directory)

C15_NoWorkerWithoutNameAndDirectory ==
    /\ [](/\ \A i \in DOMAIN workers :
               /\ heap[workers[i].config].name # ""
               /\ workers[i].at_start.name # ""
               /\ Truthy(workers[i].project_directory)
          /\ window.last = "name_required" => NameEmpty
          /\ window.last = "directory_required" => ~NameEmpty /\ NoDirectory
          /\ window.last = "start" => ~NameEmpty /\ ~NoDirectory
          /\ window.last = "clear_form" => NameEmpty /\ NoDirectory /\ window.name_input = "")
    /\ [][ /\ NameEmpty \/ NoDirectory => Len(workers') = Len(workers)
           /\ window' # window /\ window'.last \in {"name_required", "directory_required"}
              => workers' = workers /\ window'.progress_dialog = window.progress_dialog
         ]_vars

\* After a finished run and clear_form a name was typed, and create_project
\* asked for the directory.
C15_Witness ==
    /\ window.last = "directory_required"
    /\ window.name_input = ProjectName
    /\ Len(workers) = 1 /\ workers[1].state = "finished"

(***************************************************************************)
(* C16: at most one ProjectWorker of the window is running at any time,    *)
(* whatever the sequence of Create Project clicks and New Project actions. *)
(***************************************************************************)
Running == {i \in DOMAIN workers : workers[i].state = "running"}

C16_OneRunAtATime == Cardinality(Running) <= 1

(***************************************************************************)
(* C17: the ProjectConfig a worker reads is the form as it was when        *)
(* create_project was invoked: the object the worker refers to has those   *)
(* values at every moment, and so has every value the worker has read,     *)
(* whatever was edited in the form after the start.                        *)
(***************************************************************************)
C17_ConfigSnapshot ==
    \A i \in DOMAIN workers :
        LET at_start == ProjectConfigOf(workers[i].at_start.name, workers[i].at_start.form)
        IN  /\ heap[workers[i].config] = at_start
            /\ \A cfg \in workers[i].read : cfg = at_start

\* A running worker has read its configuration, and the form has been edited
\* since the start.
C17_Witness ==
    \E i \in DOMAIN workers :
        /\ workers[i].state = "running" /\ workers[i].read # {}
        /\ window.form # workers[i].at_start.form
        /\ heap[window.project_config] # heap[workers[i].config]

(***************************************************************************)
(* C18: no worker is started on a target <project_directory>/<name> that   *)
(* exists and is not empty unless the user has confirmed (here: has        *)
(* answered Yes to the one question the window asks about a directory).    *)
(***************************************************************************)
C18_NoUnconfirmedCollision ==
    \A i \in DOMAIN workers : workers[i].target_existed => workers[i].confirmed

(***************************************************************************)
(* C19: of the GitWorkers of one widget at most one is running at any      *)
(* time: when a worker is created, every earlier one has returned from     *)
(* run(), and one that was running when the handler was called has its     *)
(* stop flag set.                                                          *)
(***************************************************************************)
C19_OneGitWorker ==
    /\ Cardinality({i \in DOMAIN git_workers : isRunning(git_workers[i])}) <= 1
    /\ \A i \in DOMAIN git_workers :
          /\ i < Len(git_workers) => ~isRunning(git_workers[i])
          /\ isRunning(git_workers[i]) => git_widget.current_worker = i
    /\ git_widget.handler # "idle"
       => /\ git_widget.current_worker = Len(git_workers)
          /\ ~git_workers[git_widget.current_worker].is_running

\* The first worker was stopped in the middle of its operation, and the
\* second is running.
C19_Witness ==
    /\ Len(git_workers) = 2
    /\ ~git_workers[1].is_running /\ git_workers[1].progress # <<>>
    /\ isRunning(git_workers[2])

(***************************************************************************)
(* C20: a GitWorker whose run() has returned has emitted exactly one       *)
(* progress string and exactly one finished signal, also when stop() was   *)
(* called on it before or while it ran.                                    *)
(***************************************************************************)
C20_OneProgressOneResult ==
    \A i \in DOMAIN git_workers :
        git_workers[i].thread = "returned"
        => Len(git_workers[i].progress) = 1 /\ Len(git_workers[i].finished) = 1


(***************************************************************************)
(* C26: for every ProjectConfig with testing = true, whatever its          *)
(* test_framework, a run that got through the testing sub-stage has        *)
(* installed the test dev-dependencies and has written the test setup file *)
(* and the example test file.                                              *)
(***************************************************************************)
TestingDone ==
    /\ config.testing
    /\ ProcReturned("testing", 1) # {}
    /\ ~ \E i \in DOMAIN trace : trace[i].stage = "testing" /\ Failed(trace[i])
    /\ \/ Returned
       \/ \E i \in DOMAIN trace : trace[i].stage \in {"router", "state", "cicd", "deploy", "git"}

C27_StateManagement ==
    /\ ~Truthy(config.state_management)
       => ~ \E i \in DOMAIN trace : trace[i].stage = "state"
    /\ Truthy(config.state_management) /\ Returned /\ FinishedWith(1)
       => ProcReturned("state", 1) # {} /\ Written("src/store/index.ts")

(***************************************************************************)
(* C28: every package-manager invocation of a run, the base install and    *)
(* each feature install, runs the one executable resolved at startup, and  *)
(* config.package_manager changes nothing in what the run does.            *)
(***************************************************************************)
Installs ==
    {i \in DOMAIN trace : trace[i].op = "proc" /\ \E n \in DOMAIN trace[i].cmd : trace[i].cmd[n] = "install"}

ThreadReturned(operation) == git_thread.pc = "returned" /\ git_thread.operation = operation

C21_CommitWithoutRepository ==
    ThreadReturned("commit") /\ ~git_thread.repo_before.exists
    => /\ Len(git_thread.finished) = 1 /\ ~git_thread.finished[1].ok
       /\ ~repo.exists /\ repo.commits = <<>> /\ repo.staged = {}

(***************************************************************************)
(* C22: a commit operation that succeeds has committed exactly the         *)
(* untracked files not under node_modules/ and every modified tracked      *)
(* file, nothing that lies under node_modules/, in exactly one commit      *)
(* whose message is the caller's, or the default when none was supplied.   *)
(***************************************************************************)
C22_CommitStages ==
    ThreadReturned("commit") /\ git_thread.finished # <<>> /\ git_thread.finished[1].ok
    => LET before == git_thread.repo_before
           new == repo.commits[Len(repo.commits)]
       IN  /\ Len(repo.commits) = Len(before.commits) + 1
           /\ new.files = {f \in before.untracked : ~startswith_node_modules(f)} \cup before.modified
           /\ \A f \in new.files : ~startswith_node_modules(f)
           /\ new.message = Message(git_thread)

(***************************************************************************)
(* C23: a push operation sets the URL of origin, creates the branch when   *)
(* absent, checks it out and pushes, in this order; the push is attempted  *)
(* only after the URL is set and the branch checked out; when a step fails *)
(* no later step runs and the result is finished(False, ...).              *)
(***************************************************************************)
StepFailed(c) == c.outcome # "returns"

C23_PushOrder ==
    git_thread.operation = "push"
    => LET calls == git_thread.calls
       IN  /\ \A n \in DOMAIN calls : calls[n].call = Statements("push")[n]
           /\ \A n \in DOMAIN calls :
                 calls[n].call = "push" => repo.origin = git_thread.remote_url
                                           /\ repo.head = git_thread.branch
           /\ \A n \in DOMAIN calls : StepFailed(calls[n]) => n = Len(calls)
           /\ git_thread.pc = "returned" /\ (\E n \in DOMAIN calls : StepFailed(calls[n]))
              => Len(git_thread.finished) = 1 /\ ~git_thread.finished[1].ok

(***************************************************************************)
(* C30: after handle_git_operation has received a success result the       *)
(* buttons reflect the operation that ran, for every commit message: init  *)
(* disables Initialize and enables Commit, commit disables Commit and      *)
(* enables Push, push disables Push; a failure result changes no button.   *)
(***************************************************************************)
Reflects(operation, b) ==
    CASE operation = "init" -> [b EXCEPT !.init_btn = FALSE, !.commit_btn = TRUE]
      [] operation = "commit" -> [b EXCEPT !.commit_btn = FALSE, !.push_btn = TRUE]
      [] operation = "push" -> [b EXCEPT !.push_btn = FALSE]

C30_ButtonsReflectOperation ==
    git_thread.pc = "returned"
    => IF git_thread.finished # <<>> /\ git_thread.finished[1].ok
       THEN buttons = Reflects(git_thread.operation, git_thread.before)
       ELSE buttons = git_thread.before


(***************************************************************************)
(* C24: no ProjectRunner is started while the thread of a ProjectRunner    *)
(* that was stopped before is still in run(): every stopped runner that is *)
(* not the latest has returned.                                            *)
(***************************************************************************)
C24_StoppedRunnerJoined ==
    \A i \in 1..(Len(runners) - 1) :
        runners[i].stopped => runners[i].thread = "returned"

(***************************************************************************)
(* C25: the window is usable only if npm, npx and git were all resolved on *)
(* the search path at startup; otherwise the process has exited and        *)
(* nothing can be started.                                                 *)
(***************************************************************************)
C25_ExecutablesRequired ==
    /\ app.state = "usable" => Truthy(app.npm_path) /\ Truthy(app.npx_path) /\ app.git
    /\ app.state # "usable" => workers = <<>> /\ git_workers = <<>> /\ runners = <<>>

(***************************************************************************)
(* C29: from the pipeline's chdir into <project_directory>/<name> until    *)
(* its terminal signal the working directory of the process is that        *)
(* directory, and every file the run writes by relative path lands there,  *)
(* whatever a ProjectRunner thread does meanwhile.                         *)
(***************************************************************************)
InProject ==
    /\ \E i \in DOMAIN trace : trace[i].op = "chdir" /\ trace[i].stage = "install" /\ trace[i].val = 1
    /\ ~Returned

C29_WritesLandInProject ==
    /\ InProject => cwd = Join(ProjectDirectory, config.name)
    /\ \A w \in landed : w.directory = Join(ProjectDirectory, config.name)

====
